---- MODULE Spec2Model ----
(***************************************************************************)
(* Model of banking.py: a menu-driven banking program over one SQLite     *)
(* table card(number, pin, balance) kept in the file card.s3db.            *)
(*                                                                         *)
(* store is the committed content of the table.  Every sqlite3 connection *)
(* opened by the program runs with the default isolation level: an        *)
(* UPDATE/DELETE/INSERT opens an implicit transaction that holds the       *)
(* database write lock until the connection commits, rolls back or is     *)
(* closed.  The session connection of Account (line 132) is never         *)
(* committed; the connection of get_update (line 108) commits when its    *)
(* with-block ends.                                                        *)
(*                                                                         *)
(* A card number is a sequence of characters; the characters 0..9 are the *)
(* decimal digits and NonDigit stands for any other character.            *)
(***************************************************************************)
EXTENDS Integers, Sequences, FiniteSets, TLC

\* ------------------------------------------------------------------ bounds
MaxInitBal == 1     \* largest balance of a row present when the program starts
MaxBal == 2         \* balances (committed or pending) are explored within -MaxBal..MaxBal
FreeDigits == 1     \* trailing random card digits that are enumerated (the others are drawn as 0)
LuhnMaxLen == 3     \* longest digit string handed to the checksum validator on its own

\* ------------------------------------------------------- program constants
RandomCardDigits == 11
PinDigits == 4
InsertColumns == 2
InsertPlaceholders == 3
IssuerPrefix == <<4, 0, 0, 0, 0, 0>>

\* --------------------------------------------------------------- universe
Procs == {1, 2}
NonDigit == 10
Digit == 0..9

CardA == <<4,0,0,0,0,0,0,0,0,0,0,0,0,0,0,2>>    \* passes the checksum
CardB == <<4,0,0,0,0,0,0,0,0,0,0,0,0,0,1,0>>    \* passes the checksum
CardC == <<4,0,0,0,0,0,0,0,0,0,0,0,0,0,0,3>>    \* fails the checksum
CardD == <<4,0,0,0,0,0,0,0,0,0,0,0,0,0,2,8>>    \* passes the checksum, never in the table
NotACard == <<NonDigit, 0, NonDigit>>           \* typed text with non-digit characters
NoCard == <<>>

StoreCards == {CardA, CardB, CardC}
TypedCards == {CardA, CardB, CardC, CardD, NotACard}   \* destinations typed at line 174
LoginCards == {CardA, CardC, CardD}                      \* card numbers typed at line 19

PinA == <<1,1,1,1>>
PinB == <<2,2,2,2>>
PinC == <<3,3,3,3>>
NoPin == <<>>
PinOf(c) == IF c = CardA THEN PinA ELSE IF c = CardB THEN PinB ELSE PinC
TypedPins == {PinA, PinC}        \* PINs typed at line 20
PinTails == {<<0>>, <<7>>}       \* the random PIN digits that are enumerated (the others are drawn as 0)

DepositAmounts == {-1, 1, 2}
TransferAmounts == -1..2

EmptyTable == [c \in {} |-> [pin |-> NoPin, balance |-> 0]]
NoTx == [open |-> FALSE, table |-> EmptyTable]
NoLock == [proc |-> 0, conn |-> "none"]
NoGu == [From |-> NoCard, to |-> NoCard, amount |-> 0, a |-> 0, b |-> 0, table |-> EmptyTable]

VARIABLES
    store,   \* committed rows of table card: card number -> [pin, balance]
    lock,    \* the connection holding the database write lock, or NoLock
    pc,      \* per process: "off", "main", "session", "gu_begin", "gu_credited", "gu_debited"
    sess,    \* per process: card and pin of the Account object running its menu
    view,    \* per process: the pending transaction of the session connection
    old,     \* per process: an ended session's connection that still holds the lock:
             \*   "none", "bound" (still referenced by acc) or "garbage" (awaiting collection)
    gu,      \* per process: arguments and pending transaction of the running get_update
    ncur,    \* per process: open cursors acquired by Account objects (line 132)
    ev       \* description of the step just taken

vars == <<store, lock, pc, sess, view, old, gu, ncur, ev>>

\* ------------------------------------------------------------ pure helpers
IsDigits(s) == \A i \in 1..Len(s) : s[i] \in Digit

LuhnDigitEvenDoubled(x, num) ==
    IF x % 2 = 1 THEN num
    ELSE LET n == num * 2 IN IF n < 10 THEN n ELSE n - 9

\* lines 76-80: the digit at 1-indexed position x after the loop
LuhnDigit(x, num) ==
    IF x % 2 = 0 THEN num
    ELSE LET n == num * 2 IN IF n < 10 THEN n ELSE n - 9

\* line 81: sum(number) over the first x positions
RECURSIVE LuhnSum(_, _)
LuhnSum(number, x) ==
    IF x = 0 THEN 0 ELSE LuhnDigit(x, number[x]) + LuhnSum(number, x - 1)

\* lines 74-81, for a string of digits
luhn_algorithm(card_number) ==
    LuhnSum(card_number, Len(card_number)) % 10 = 0

RECURSIVE SumBalances(_, _)
SumBalances(table, cards) ==
    IF cards = {} THEN 0
    ELSE LET c == CHOOSE x \in cards : TRUE
         IN table[c].balance + SumBalances(table, cards \ {c})

TotalBalance(table) == SumBalances(table, DOMAIN table)

\* SQL LIKE between a stored number and a pattern; neither holds a wildcard
\* (% or _) or a letter, so the match is equality of the two strings.
Like(number, pattern) == number = pattern

check_credentials_number_only(table, card, pin) ==
    \E c \in DOMAIN table : c = card

\* line 67: SELECT pin FROM card WHERE number = ? AND pin = ?, bool(fetchone())
check_credentials(table, card, pin) ==
    \E c \in DOMAIN table : c = card /\ table[c].pin = pin

\* line 135-136
exists(table, card) == \E c \in DOMAIN table : c = card

\* line 144: UPDATE card SET balance = balance + ? WHERE number = ?
add_balance(table, card, income) ==
    [c \in DOMAIN table |->
        IF c = card THEN [table[c] EXCEPT !.balance = @ + income] ELSE table[c]]

\* line 150: DELETE FROM card WHERE number = ?
close_account(table, card) ==
    [c \in DOMAIN table \ {card} |-> table[c]]

UpdateCreditAllRows(table, to, amount) ==
    [c \in DOMAIN table |-> [table[c] EXCEPT !.balance = @ + amount]]

\* lines 111-116: UPDATE card SET balance = balance + ? WHERE number LIKE ?
UpdateCredit(table, to, amount) ==
    [c \in DOMAIN table |->
        IF Like(c, to) THEN [table[c] EXCEPT !.balance = @ + amount] ELSE table[c]]

UpdateDebitPlus(table, From, amount) ==
    [c \in DOMAIN table |->
        IF Like(c, From) THEN [table[c] EXCEPT !.balance = @ + amount] ELSE table[c]]

\* lines 117-122: UPDATE card SET balance = balance - ? WHERE number LIKE ?
UpdateDebit(table, From, amount) ==
    [c \in DOMAIN table |->
        IF Like(c, From) THEN [table[c] EXCEPT !.balance = @ - amount] ELSE table[c]]

\* lines 52-58: INSERT OR IGNORE INTO card (number, pin) VALUES (...), balance DEFAULT 0
InsertOrIgnore(table, card, pin) ==
    IF card \in DOMAIN table THEN table
    ELSE [c \in DOMAIN table \cup {card} |->
            IF c = card THEN [pin |-> pin, balance |-> 0] ELSE table[c]]

\* lines 54-55: the statement is accepted only if it supplies one value per column
InsertCompiles == InsertPlaceholders = InsertColumns

\* lines 87-88: the strings the generator can draw
Pad(n) == [i \in 1..n |-> 0]
FreeSeqs(n) == [1..n -> Digit]
CardDraws == {IssuerPrefix \o Pad(RandomCardDigits - FreeDigits) \o f : f \in FreeSeqs(FreeDigits)}
PinDraws == {Pad(PinDigits - Len(t)) \o t : t \in PinTails}

generate_numbers_unchecked == CardDraws \X PinDraws

\* lines 86-92: the pairs generate_numbers can return
generate_numbers == {<<c, p>> \in CardDraws \X PinDraws : luhn_algorithm(c)}


\* line 108: statements run inside the transaction of the with-block; the
\* committed table is what it was until the block ends
StoreAfterStatementAuto(committed, pending) == pending

StoreAfterStatement(committed, pending) == committed

\* lines 161-198 fall through to the next statement except where the branch
\* ends in continue/return/raise: only the outcome "ok" reaches line 190
SkipsUpdateNoContinue(outcome) == outcome \notin {"ok", "funds"}

SkipsUpdate(outcome) == outcome # "ok"

\* line 187: amount > int(self.balance())
NotEnoughMoneyNever(amount, balance) == FALSE

NotEnoughMoney(amount, balance) == amount > balance

TransferOutcomeChecksumFirst(card, table, to, amount) ==
    IF ~IsDigits(to) THEN "ValueError"
    ELSE IF ~luhn_algorithm(to) THEN "luhn"
    ELSE IF card = to THEN "self"
    ELSE IF ~exists(table, to) THEN "noexist"
    ELSE IF ~exists(table, card) THEN "TypeError"
    ELSE IF NotEnoughMoney(amount, table[card].balance) THEN "funds"
    ELSE IF Len(card) > 0 /\ Len(to) > 0 THEN "ok"
    ELSE "Error."

\* lines 175-190: the branch taken by choice '3' for the typed destination and amount
TransferOutcome(card, table, to, amount) ==
    IF card = to THEN "self"
    ELSE IF ~IsDigits(to) THEN "ValueError"
    ELSE IF ~luhn_algorithm(to) THEN "luhn"
    ELSE IF ~exists(table, to) THEN "noexist"
    ELSE IF ~exists(table, card) THEN "TypeError"
    ELSE IF NotEnoughMoney(amount, table[card].balance) THEN "funds"
    ELSE IF Len(card) > 0 /\ Len(to) > 0 THEN "ok"
    ELSE "Error."

Rejections == {"self", "luhn", "noexist", "funds"}

\* ------------------------------------------------------------ state helpers
\* line 132: Account.__init__ opens a connection and acquires its cursor
AcquireCursor(n) == n + 1

CloseCursorSkipped(n) == n

\* line 206: __exit__ closes the cursor
CloseCursor(n) == n - 1

\* lines 22-25: __enter__ raised, __exit__ is not called; the Account object is
\* dropped when the handler of ValueError ends and its cursor goes with it
DropUnentered(n) == n - 1

NoSess == [card |-> NoCard, pin |-> NoPin]
InSession == {"session", "gu_begin", "gu_credited", "gu_debited"}

Ev(p, op, out, card, pin, to, amount, val, a, b) ==
    [proc |-> p, op |-> op, out |-> out, card |-> card, pin |-> pin,
     to |-> to, amount |-> amount, val |-> val, a |-> a, b |-> b]

\* what a statement on the session cursor of p reads
View(p) == IF view[p].open THEN view[p].table ELSE store

InBounds(n) == -MaxBal <= n /\ n <= MaxBal

BalanceOr0(table, c) == IF c \in DOMAIN table THEN table[c].balance ELSE 0

\* the rows card.s3db may hold when the program starts: the table outlives the
\* process (CREATE TABLE IF NOT EXISTS, lines 38-49).  The row of CardC
\* starts with balance 0.
InitRows(S) == {t \in [S -> [pin : {PinA, PinB, PinC}, balance : 0..MaxInitBal]] :
                  \A c \in S : t[c].pin = PinOf(c) /\ (c = CardC => t[c].balance = 0)}

Init ==
    /\ store \in UNION {InitRows(S) : S \in SUBSET StoreCards}
    /\ lock = NoLock
    /\ pc = [p \in Procs |-> IF p = 1 THEN "main" ELSE "off"]
    /\ sess = [p \in Procs |-> NoSess]
    /\ view = [p \in Procs |-> NoTx]
    /\ old = [p \in Procs |-> "none"]
    /\ gu = [p \in Procs |-> NoGu]
    /\ ncur = [p \in Procs |-> 0]
    /\ ev = Ev(0, "init", "", NoCard, NoPin, NoCard, 0, 0, 0, 0)

\* the process of p ends: every connection it holds is closed, which rolls
\* back its pending transaction and releases the lock
Terminate(p) ==
    /\ pc' = [pc EXCEPT ![p] = "off"]
    /\ sess' = [sess EXCEPT ![p] = NoSess]
    /\ view' = [view EXCEPT ![p] = NoTx]
    /\ old' = [old EXCEPT ![p] = "none"]
    /\ gu' = [gu EXCEPT ![p] = NoGu]
    /\ ncur' = [ncur EXCEPT ![p] = 0]
    /\ lock' = IF lock.proc = p THEN NoLock ELSE lock
    /\ store' = store

\* lines 205-211 with a None or non-SystemExit exception: the cursor is closed
\* and control returns to BankingSystem.menu; the connection is neither
\* committed nor closed, and stays referenced by acc.  pending is the
\* transaction of the session connection at that moment.
EndSession(p, pending) ==
    /\ pc' = [pc EXCEPT ![p] = "main"]
    /\ sess' = [sess EXCEPT ![p] = NoSess]
    /\ view' = [view EXCEPT ![p] = NoTx]
    /\ gu' = [gu EXCEPT ![p] = NoGu]
    /\ ncur' = [ncur EXCEPT ![p] = CloseCursor(@)]
    /\ old' = [old EXCEPT ![p] = IF pending.open THEN "bound" ELSE @]
    /\ lock' = IF pending.open THEN [proc |-> p, conn |-> "old"]
               ELSE IF lock = [proc |-> p, conn |-> "gu"] THEN NoLock
               ELSE lock
    /\ store' = store

\* ------------------------------------------------------------------ actions
\* lines 215-216, 8-9, 38-49: the program starts; the table is kept if it exists
Start(p) ==
    /\ pc[p] = "off"
    /\ pc' = [pc EXCEPT ![p] = "main"]
    /\ ev' = Ev(p, "start", "", NoCard, NoPin, NoCard, 0, 0, 0, 0)
    /\ UNCHANGED <<store, lock, sess, view, old, gu, ncur>>

\* lines 16-17, 94-99, 50-58: choice '1'
create_account(p) ==
    /\ pc[p] = "main"
    /\ \E g \in generate_numbers :
        IF InsertCompiles /\ lock = NoLock
        THEN /\ store' = InsertOrIgnore(store, g[1], g[2])
             /\ ev' = Ev(p, "create", "created", g[1], g[2], NoCard, 0, 0, 0, 0)
             /\ UNCHANGED <<lock, pc, sess, view, old, gu, ncur>>
        ELSE \* sqlite3.OperationalError is not caught: the process ends
             /\ Terminate(p)
             /\ ev' = Ev(p, "create", "OperationalError", g[1], g[2], NoCard, 0, 0, 0, 0)

\* lines 18-25, 130-132, 199-203: choice '2'
Login(p, card, pin) ==
    /\ pc[p] = "main"
    /\ IF check_credentials(store, card, pin)
       THEN /\ pc' = [pc EXCEPT ![p] = "session"]
            /\ sess' = [sess EXCEPT ![p] = [card |-> card, pin |-> pin]]
            /\ old' = [old EXCEPT ![p] = IF @ = "bound" THEN "garbage" ELSE @]
            /\ ncur' = [ncur EXCEPT ![p] = AcquireCursor(@)]
            /\ ev' = Ev(p, "login", "ok", card, pin, NoCard, 0, 0, 0, 0)
            /\ UNCHANGED <<store, lock, view, gu>>
       ELSE /\ ncur' = [ncur EXCEPT ![p] = DropUnentered(AcquireCursor(@))]
            /\ ev' = Ev(p, "login", "Wrong card number or PIN.", card, pin, NoCard, 0, 0, 0, 0)
            /\ UNCHANGED <<store, lock, pc, sess, view, old, gu>>

\* lines 26-28: choice '0' of the main menu
ExitMain(p) ==
    /\ pc[p] = "main"
    /\ Terminate(p)
    /\ ev' = Ev(p, "exit", "Bye!", NoCard, NoPin, NoCard, 0, 0, 0, 0)

\* the runtime frees an unreferenced session connection: its transaction is
\* rolled back and the lock released
Collect(p) ==
    /\ old[p] = "garbage"
    /\ old' = [old EXCEPT ![p] = "none"]
    /\ lock' = IF lock = [proc |-> p, conn |-> "old"] THEN NoLock ELSE lock
    /\ ev' = Ev(p, "collect", "", NoCard, NoPin, NoCard, 0, 0, 0, 0)
    /\ UNCHANGED <<store, pc, sess, view, gu, ncur>>

\* abnormal termination of the process at any point
Crash(p) ==
    /\ pc[p] # "off"
    /\ Terminate(p)
    /\ ev' = Ev(p, "crash", pc[p], sess[p].card, NoPin, gu[p].to, gu[p].amount, 0, gu[p].a, gu[p].b)


\* lines 168-169, 138-140: choice '1' of the account menu
Balance(p) ==
    /\ pc[p] = "session"
    /\ IF exists(View(p), sess[p].card)
       THEN /\ ev' = Ev(p, "balance", "ok", sess[p].card, NoPin, NoCard, 0,
                        View(p)[sess[p].card].balance, 0, 0)
            /\ UNCHANGED <<store, lock, pc, sess, view, old, gu, ncur>>
       ELSE \* fetchone() is None: TypeError, printed by __exit__
            /\ EndSession(p, view[p])
            /\ ev' = Ev(p, "balance", "TypeError", sess[p].card, NoPin, NoCard, 0, 0, 0, 0)

\* lines 170-172, 142-147: choice '2' of the account menu
Deposit(p, income) ==
    /\ pc[p] = "session"
    /\ InBounds(BalanceOr0(View(p), sess[p].card) + income)
    /\ IF view[p].open \/ lock = NoLock
       THEN /\ view' = [view EXCEPT ![p] =
                          [open |-> TRUE, table |-> add_balance(View(p), sess[p].card, income)]]
            /\ lock' = [proc |-> p, conn |-> "session"]
            /\ store' = store
            /\ ev' = Ev(p, "deposit", "Income was added!", sess[p].card, NoPin, NoCard, income,
                        0, BalanceOr0(View(p), sess[p].card), 0)
            /\ UNCHANGED <<pc, sess, old, gu, ncur>>
       ELSE \* database is locked: OperationalError, printed by __exit__
            /\ EndSession(p, view[p])
            /\ ev' = Ev(p, "deposit", "locked", sess[p].card, NoPin, NoCard, income, 0, 0, 0)

\* lines 191-193, 149-150, 205-211: choice '4' of the account menu
Close(p) ==
    /\ pc[p] = "session"
    /\ IF view[p].open \/ lock = NoLock
       THEN /\ EndSession(p, [open |-> TRUE, table |-> close_account(View(p), sess[p].card)])
            /\ ev' = Ev(p, "close", "ok", sess[p].card, sess[p].pin, NoCard, 0, 0, 0, 0)
       ELSE /\ EndSession(p, view[p])
            /\ ev' = Ev(p, "close", "locked", sess[p].card, sess[p].pin, NoCard, 0, 0, 0, 0)

\* lines 194-195, 205-211: choice '5' of the account menu
Logout(p) ==
    /\ pc[p] = "session"
    /\ EndSession(p, view[p])
    /\ ev' = Ev(p, "logout", "You have successfully logged out.", sess[p].card, NoPin, NoCard,
                0, 0, BalanceOr0(View(p), sess[p].card), 0)

\* lines 196-197, 205-208, then SystemExit leaves BankingSystem.menu
ExitSession(p) ==
    /\ pc[p] = "session"
    /\ Terminate(p)
    /\ ev' = Ev(p, "exit", "Bye!", sess[p].card, NoPin, NoCard, 0, 0, 0, 0)

\* lines 173-190: choice '3' of the account menu, up to the call of get_update
Transfer(p, to, amount) ==
    /\ pc[p] = "session"
    /\ LET card == sess[p].card
           outcome == TransferOutcome(card, View(p), to, amount)
           a == BalanceOr0(View(p), card)
           b == BalanceOr0(View(p), to)
       IN  /\ outcome \in {"ok", "funds"} => InBounds(b + amount) /\ InBounds(a - amount)
           /\ ev' = Ev(p, "transfer", outcome, card, NoPin, to, amount, 0, a, b)
           /\ IF outcome \in {"ValueError", "TypeError"}
              THEN EndSession(p, view[p])
              ELSE IF SkipsUpdate(outcome) \/ outcome = "Error."
              THEN UNCHANGED <<store, lock, pc, sess, view, old, gu, ncur>>
              ELSE /\ pc' = [pc EXCEPT ![p] = "gu_begin"]
                   /\ gu' = [gu EXCEPT ![p] = [From |-> card, to |-> to, amount |-> amount,
                                               a |-> a, b |-> b, table |-> EmptyTable]]
                   /\ UNCHANGED <<store, lock, sess, view, old, ncur>>

GuEv(p, op, out) ==
    Ev(p, op, out, gu[p].From, NoPin, gu[p].to, gu[p].amount, 0, gu[p].a, gu[p].b)

\* lines 108-116: the first UPDATE opens the transaction of the new connection
GU_Credit(p) ==
    /\ pc[p] = "gu_begin"
    /\ IF lock = NoLock
       THEN /\ lock' = [proc |-> p, conn |-> "gu"]
            /\ gu' = [gu EXCEPT ![p].table = UpdateCredit(store, gu[p].to, gu[p].amount)]
            /\ store' = StoreAfterStatement(store, UpdateCredit(store, gu[p].to, gu[p].amount))
            /\ pc' = [pc EXCEPT ![p] = "gu_credited"]
            /\ ev' = GuEv(p, "gu_credit", "")
            /\ UNCHANGED <<sess, view, old, ncur>>
       ELSE \* database is locked: OperationalError leaves get_update and the menu
            /\ EndSession(p, view[p])
            /\ ev' = GuEv(p, "transfer", "locked")

\* lines 117-122: the second UPDATE
GU_Debit(p) ==
    /\ pc[p] = "gu_credited"
    /\ gu' = [gu EXCEPT ![p].table = UpdateDebit(gu[p].table, gu[p].From, gu[p].amount)]
    /\ store' = StoreAfterStatement(store, UpdateDebit(gu[p].table, gu[p].From, gu[p].amount))
    /\ pc' = [pc EXCEPT ![p] = "gu_debited"]
    /\ ev' = GuEv(p, "gu_debit", "")
    /\ UNCHANGED <<lock, sess, view, old, ncur>>

\* the second UPDATE raises (storage fault): the with-block of line 108 rolls
\* back, the exception leaves the menu and is printed by __exit__
GU_Fault(p) ==
    /\ pc[p] = "gu_credited"
    /\ EndSession(p, view[p])
    /\ ev' = GuEv(p, "transfer", "fault")

\* lines 123, 108: return inside the with-block commits the transaction
GU_Commit(p) ==
    /\ pc[p] = "gu_debited"
    /\ store' = gu[p].table
    /\ lock' = NoLock
    /\ pc' = [pc EXCEPT ![p] = "session"]
    /\ gu' = [gu EXCEPT ![p] = NoGu]
    /\ ev' = GuEv(p, "transfer", "Success!")
    /\ UNCHANGED <<sess, view, old, ncur>>

Step(p) ==
    \/ Start(p)
    \/ create_account(p)
    \/ \E card \in LoginCards, pin \in TypedPins : Login(p, card, pin)
    \/ ExitMain(p)
    \/ Balance(p)
    \/ \E income \in DepositAmounts : Deposit(p, income)
    \/ \E to \in TypedCards, amount \in TransferAmounts : Transfer(p, to, amount)
    \/ GU_Credit(p)
    \/ GU_Debit(p)
    \/ GU_Fault(p)
    \/ GU_Commit(p)
    \/ Close(p)
    \/ Logout(p)
    \/ ExitSession(p)
    \/ Collect(p)
    \/ Crash(p)

\* one interactive program at a time
Next == Step(1)

Spec == Init /\ [][Next]_vars


\* ------------------------------------------------------------------- claims
SessionOps == {"balance", "deposit", "transfer", "close"}
WellFormed(c) == IsDigits(c) /\ luhn_algorithm(c)

\* C1: a transfer of m, 0 < m <= a, from the authenticated account A (balance a
\* as the session reads it, deposits of the current session included) to an
\* existing account B # A succeeds and leaves A with a - m and B with b + m.
\* A transfer that met an injected storage fault is not counted.
C1_TransferSucceeds ==
    ( /\ ev.op = "transfer"
      /\ ev.out \notin {"ok", "fault"}
      /\ exists(store, ev.to) /\ ev.to # ev.card /\ WellFormed(ev.to)
      /\ 0 < ev.amount /\ ev.amount <= ev.a )
    => ( /\ ev.out = "Success!"
         /\ store[ev.card].balance = ev.a - ev.amount
         /\ store[ev.to].balance = ev.b + ev.amount )

\* C2: every step of an operation other than deposit leaves the sum of the
\* stored balances what it was.
C2_TotalPreserved ==
    [][ev'.op # "deposit" => TotalBalance(store') = TotalBalance(store)]_vars

C2_Witness ==
    ev.op = "transfer" /\ ev.out = "Success!" /\ ev.amount # 0

\* C3: the committed table changes only by a whole transfer: every step that
\* changes it applies both the credit and the debit of the running get_update,
\* so a fault or a termination between the two updates leaves it untouched.
C3_TransferAtomic ==
    [][store' # store =>
         \E p \in Procs :
            /\ pc[p] = "gu_debited"
            /\ store' = UpdateDebit(UpdateCredit(store, gu[p].to, gu[p].amount),
                                    gu[p].From, gu[p].amount)]_vars

C3_Witness ==
    ev.op = "crash" /\ ev.out = "gu_credited" /\ ev.amount > 0

\* C4: a transfer rejected as self-transfer, bad checksum, unknown recipient or
\* insufficient funds ends there: no committed and no pending balance changes
\* and get_update is not called.
C4_RejectedNoChange ==
    [][(ev'.op = "transfer" /\ ev'.out \in Rejections) =>
         (store' = store /\ view' = view /\ pc' = pc /\ gu' = gu)]_vars

C4_Witness ==
    ev.op = "transfer" /\ ev.out = "funds" /\ ev.amount > ev.a /\ ev.a > 0

\* C5: with one program running, after every committed transfer the sender's
\* stored balance is >= 0.
C5_SenderNonNegative ==
    (ev.op = "transfer" /\ ev.out = "Success!") => store[ev.card].balance >= 0

C5_Witness ==
    /\ ev.op = "transfer" /\ ev.out = "Success!" /\ ev.amount > 0
    /\ store[ev.card].balance = 0

\* C6: a process enters the account menu only by a login whose (card, PIN)
\* pair is a row of the table at that moment, and balance inquiry, deposit,
\* transfer and close are only performed inside such a session.
C6_AuthenticatedOnlyIfVerified ==
    [][ /\ \A p \in Procs :
             (pc[p] \notin InSession /\ pc'[p] \in InSession) =>
                /\ ev'.op = "login" /\ ev'.proc = p
                /\ sess'[p] = [card |-> ev'.card, pin |-> ev'.pin]
                /\ ev'.card \in DOMAIN store
                /\ store[ev'.card].pin = ev'.pin
        /\ ev'.op \in SessionOps =>
             /\ pc[ev'.proc] \in InSession
             /\ sess[ev'.proc].card \in DOMAIN store
             /\ store[sess[ev'.proc].card].pin = sess[ev'.proc].pin ]_vars

C6_Witness ==
    /\ ev.op = "login" /\ ev.out = "Wrong card number or PIN."
    /\ ev.card \in DOMAIN store /\ pc[ev.proc] = "main"

\* C7: after close() the account's row is gone: exists(card) is false and the
\* card and PIN no longer authenticate.
C7_CloseRemoves ==
    (ev.op = "close" /\ ev.out = "ok") =>
        (~exists(store, ev.card) /\ ~check_credentials(store, ev.card, ev.pin))

\* C8: an acknowledged deposit of d makes the session read the previous balance
\* plus d, and the balance the session reads when it logs out is the stored
\* balance that the next session of the account reads.
C8_DepositPersists ==
    /\ (ev.op = "deposit" /\ ev.out = "Income was added!") =>
          View(ev.proc)[ev.card].balance = ev.a + ev.amount
    /\ ev.op = "logout" => store[ev.card].balance = ev.a

\* C9: create-account inserts the row (generated card, generated PIN, 0), so
\* that the pair authenticates and the balance is 0.
C9_CreateInserts ==
    ev.op = "create" =>
        /\ ev.out = "created"
        /\ check_credentials(store, ev.card, ev.pin)
        /\ store[ev.card].balance = 0

\* C10: a generated card number is 16 decimal digits starting with the issuer
\* prefix and a generated PIN is 4 decimal digits.
C10_GeneratedFormat ==
    ev.op = "create" =>
        /\ Len(ev.card) = 16 /\ IsDigits(ev.card)
        /\ SubSeq(ev.card, 1, Len(IssuerPrefix)) = IssuerPrefix
        /\ Len(ev.pin) = 4 /\ IsDigits(ev.pin)


\* ------------------------------------------- the checksum validator alone
DigitStrings == UNION {[1..n -> Digit] : n \in 0..LuhnMaxLen}

\* a digit string is typed and nothing else is going on
LuhnInit ==
    /\ store = EmptyTable
    /\ lock = NoLock
    /\ pc = [p \in Procs |-> "off"]
    /\ sess = [p \in Procs |-> NoSess]
    /\ view = [p \in Procs |-> NoTx]
    /\ old = [p \in Procs |-> "none"]
    /\ gu = [p \in Procs |-> NoGu]
    /\ ncur = [p \in Procs |-> 0]
    /\ \E s \in DigitStrings : ev = Ev(0, "typed", "", s, NoPin, NoCard, 0, 0, 0, 0)

\* lines 74-81: luhn_algorithm is called on the typed string
LuhnApply ==
    /\ ev.op = "typed"
    /\ ev' = [ev EXCEPT !.op = "luhn",
                        !.out = IF luhn_algorithm(ev.card) THEN "True" ELSE "False"]
    /\ UNCHANGED <<store, lock, pc, sess, view, old, gu, ncur>>

LuhnSpec == LuhnInit /\ [][LuhnApply]_vars

\* C11: every card number generate_numbers returns passes luhn_algorithm.
C11_GeneratedValid ==
    ev.op = "create" => luhn_algorithm(ev.card)

C11_Witness ==
    /\ ev.op = "create" /\ luhn_algorithm(ev.card)
    /\ \E c \in CardDraws : ~luhn_algorithm(c)

\* C12: on a string of digits the validator answers true exactly when the sum
\* of the digits, those at odd positions (from the left, starting at 1) first
\* doubled and reduced by 9 when the double exceeds 9, is divisible by 10; the
\* call changes nothing else.
ClaimedTerm(s, i) ==
    IF i % 2 = 1 THEN (IF 2 * s[i] > 9 THEN 2 * s[i] - 9 ELSE 2 * s[i]) ELSE s[i]

RECURSIVE ClaimedSum(_, _)
ClaimedSum(s, positions) ==
    IF positions = {} THEN 0
    ELSE LET i == CHOOSE j \in positions : TRUE
         IN ClaimedTerm(s, i) + ClaimedSum(s, positions \ {i})

C12_ChecksumRule ==
    ev.op = "luhn" =>
        /\ (ev.out = "True") <=> (ClaimedSum(ev.card, 1..Len(ev.card)) % 10 = 0)
        /\ store = EmptyTable /\ lock = NoLock

C12_Witness ==
    ev.op = "luhn" /\ ev.out = "True" /\ Len(ev.card) = 3 /\ ev.card[1] > 4 /\ ev.card[2] > 0

\* C13: a transfer to a destination that is not a well-formed card number,
\* text with non-digit characters included, is answered with the
\* invalid-card-number message and the session goes on.
C13_MalformedRejected ==
    (ev.op = "transfer" /\ ev.to # ev.card /\ ~WellFormed(ev.to)) =>
        (ev.out = "luhn" /\ pc[ev.proc] = "session")

ConcInit ==
    /\ store = [c \in {CardA, CardB} |->
                  [pin |-> PinOf(c), balance |-> IF c = CardA THEN MaxInitBal ELSE 0]]
    /\ lock = NoLock
    /\ pc = [p \in Procs |-> "main"]
    /\ sess = [p \in Procs |-> NoSess]
    /\ view = [p \in Procs |-> NoTx]
    /\ old = [p \in Procs |-> "none"]
    /\ gu = [p \in Procs |-> NoGu]
    /\ ncur = [p \in Procs |-> 0]
    /\ ev = Ev(0, "init", "", NoCard, NoPin, NoCard, 0, 0, 0, 0)

ConcStep(p) ==
    \/ Start(p)
    \/ create_account(p)
    \/ Login(p, CardA, PinA)
    \/ Balance(p)
    \/ Deposit(p, MaxInitBal)
    \/ Transfer(p, CardB, MaxInitBal)
    \/ GU_Credit(p)
    \/ GU_Debit(p)
    \/ GU_Fault(p)
    \/ GU_Commit(p)
    \/ Logout(p)
    \/ Collect(p)

ConcNext == \E p \in Procs : ConcStep(p)

SpecConc == ConcInit /\ [][ConcNext]_vars

\* C15: a call of the generator never returns a card number that is in the
\* table or that the call before it returned.
C15_DistinctNumbers ==
    [][ev'.op = "create" =>
         /\ ~exists(store, ev'.card)
         /\ ev.op = "create" => ev'.card # ev.card]_vars

\* C16: a committed transfer that changes the table moves an amount > 0 from
\* the sender to the destination, and a committed transfer of an amount <= 0
\* neither lowers the destination's balance nor raises the sender's.
C16_PositiveAmount ==
    [][(ev'.op = "transfer" /\ ev'.out = "Success!") =>
         /\ store' # store =>
              /\ ev'.amount > 0
              /\ store'[ev'.card].balance = store[ev'.card].balance - ev'.amount
              /\ store'[ev'.to].balance = store[ev'.to].balance + ev'.amount
         /\ ev'.amount <= 0 =>
              /\ store'[ev'.to].balance >= store[ev'.to].balance
              /\ store'[ev'.card].balance <= store[ev'.card].balance]_vars

\* C17: the outcome of a transfer request is decided by the first failing
\* check in the order self-transfer, checksum, existence, funds.
C17_CheckOrder ==
    ev.op = "transfer" =>
        /\ (ev.to = ev.card) => ev.out = "self"
        /\ (ev.to # ev.card /\ IsDigits(ev.to) /\ ~luhn_algorithm(ev.to)) => ev.out = "luhn"
        /\ (ev.to # ev.card /\ WellFormed(ev.to) /\ ~exists(store, ev.to)) => ev.out = "noexist"
        /\ (ev.out = "funds") =>
              /\ ev.to # ev.card /\ WellFormed(ev.to) /\ exists(store, ev.to)
              /\ ev.amount > ev.a

C17_Witness ==
    ev.op = "transfer" /\ ev.out = "self" /\ ~luhn_algorithm(ev.card)

\* C18: a committed transfer from A to B keeps the set of rows, every card
\* number and PIN, and the balance of every row other than A and B.
C18_TransferFrame ==
    [][(ev'.op = "transfer" /\ ev'.out = "Success!") =>
         /\ DOMAIN store' = DOMAIN store
         /\ \A c \in DOMAIN store :
              /\ store'[c].pin = store[c].pin
              /\ c \notin {ev'.card, ev'.to} => store'[c].balance = store[c].balance]_vars

C18_Witness ==
    /\ ev.op = "transfer" /\ ev.out = "Success!" /\ ev.amount > 0
    /\ Cardinality(DOMAIN store) = 3

\* C19: with two programs holding sessions whose inquiries, deposits and
\* transfers interleave, every committed transfer debits the sender and
\* credits the destination once and leaves the sender's balance >= 0.
C19_ConcurrentTransfers ==
    [][(ev'.op = "transfer" /\ ev'.out = "Success!") =>
         /\ store'[ev'.card].balance = store[ev'.card].balance - ev'.amount
         /\ store'[ev'.to].balance = store[ev'.to].balance + ev'.amount
         /\ store'[ev'.card].balance >= 0]_vars

====
